---- MODULE Spec2Model ----
(***************************************************************************)
(* Model of app.py: a Flask service with POST /predict_box_score, which    *)
(* asks a chat-completion API five times for a number, parses each answer  *)
(* with float(), averages the five values and formats the mean with        *)
(* "{:.2f}", and GET /health.                                              *)
(*                                                                         *)
(* Texts (the model's answers, predicted_cac) are sequences of one-        *)
(* character strings.  A Python float is a record                          *)
(*     [kind |-> "fin" | "inf" | "nan", neg |-> BOOLEAN, mag |-> Nat]      *)
(* whose magnitude is counted in thousandths (mills): every modelled       *)
(* answer has at most two fraction digits, so a sum of them is a multiple  *)
(* of 10 mills and its fifth is a whole number of mills.  Double precision *)
(* arithmetic is exact to far below one mill on these magnitudes.          *)
(***************************************************************************)
EXTENDS Integers, Sequences, FiniteSets, TLC

VARIABLES
    proc,        \* "init" | "serving" | "crashed": the process
    key,         \* OPENAI_API_KEY as read at import: "absent" | "empty" | "set"
    reqs,        \* per request slot: the handler's position and locals
    healthResp   \* the last response of GET /health, NoResp before the first

vars == <<proc, key, reqs, healthResp>>

----------------------------------------------------------------------------
(* Program constants *)

Runs == 5                \* for _ in range(5)
HTTP_OK == 200           \* the status of a normal Flask response
HTTP_BAD_REQUEST == 400
HTTP_SERVER_ERROR == 500
CentsPerUnit == 100      \* the two fraction digits of ".2f"

----------------------------------------------------------------------------
(* Texts *)

Digits == <<"0", "1", "2", "3", "4", "5", "6", "7", "8", "9">>

IsDigit(c) == \E i \in 1..10 : Digits[i] = c

DigitVal(c) == (CHOOSE i \in 1..10 : Digits[i] = c) - 1

IsSpace(c) == c \in {" ", "\n", "\t"}

RECURSIVE lstrip(_)
lstrip(s) == IF s # <<>> /\ IsSpace(Head(s)) THEN lstrip(Tail(s)) ELSE s

RECURSIVE rstrip(_)
rstrip(s) ==
    IF s # <<>> /\ IsSpace(s[Len(s)]) THEN rstrip(SubSeq(s, 1, Len(s) - 1)) ELSE s

\* str.strip()
strip(s) == rstrip(lstrip(s))

\* The value of a run of decimal digits.
RECURSIVE NatOf(_)
NatOf(s) == IF s = <<>> THEN 0 ELSE 10 * NatOf(SubSeq(s, 1, Len(s) - 1)) + DigitVal(s[Len(s)])

AllDigits(s) == \A i \in 1..Len(s) : IsDigit(s[i])

\* The index of the first "." of s, 0 when it has none.
PointAt(s) == IF \E i \in 1..Len(s) : s[i] = "." THEN CHOOSE i \in 1..Len(s) : s[i] = "." /\ \A j \in 1..(i - 1) : s[j] # "." ELSE 0

----------------------------------------------------------------------------
(* Python floats *)

Fin(neg, mag) == [kind |-> "fin", neg |-> neg, mag |-> mag]
Inf(neg) == [kind |-> "inf", neg |-> neg, mag |-> 0]
NaN == [kind |-> "nan", neg |-> FALSE, mag |-> 0]
NotAFloat == [kind |-> "err", neg |-> FALSE, mag |-> 0]

\* The mills of a fraction of one or two digits.
FracMills(f) == IF Len(f) = 0 THEN 0 ELSE IF Len(f) = 1 THEN 100 * NatOf(f) ELSE 10 * NatOf(f)

\* An unsigned literal: digits, digits "." [digits], "." digits, inf, nan.
\* Fractions are read up to two digits, the longest a modelled answer has.
Unsigned(neg, s) ==
    IF s = <<"n", "a", "n">> THEN NaN
    ELSE IF s = <<"i", "n", "f">> THEN Inf(neg)
    ELSE IF s = <<>> THEN NotAFloat
    ELSE LET p == PointAt(s)
             whole == IF p = 0 THEN s ELSE SubSeq(s, 1, p - 1)
             frac == IF p = 0 THEN <<>> ELSE SubSeq(s, p + 1, Len(s))
         IN  IF /\ AllDigits(whole) /\ AllDigits(frac)
                /\ Len(whole) + Len(frac) > 0
                /\ Len(frac) <= 2
             THEN Fin(neg, 1000 * NatOf(whole) + FracMills(frac))
             ELSE NotAFloat

\* float(text): surrounding whitespace is ignored, one sign is allowed; a
\* result of kind "err" stands for the ValueError float() raises.  Python
\* also reads exponents, underscores, "infinity" and any letter case; no
\* modelled answer uses them.
float(text) ==
    LET s == strip(text)
    IN  IF s = <<>> THEN NotAFloat
        ELSE IF Head(s) = "-" THEN Unsigned(TRUE, Tail(s))
        ELSE IF Head(s) = "+" THEN Unsigned(FALSE, Tail(s))
        ELSE Unsigned(FALSE, s)

Signed(x) == IF x.neg THEN 0 - x.mag ELSE x.mag

Abs(n) == IF n < 0 THEN 0 - n ELSE n

\* x < 0 on floats: false for nan and for both zeros.
LessThanZero(x) ==
    \/ x.kind = "inf" /\ x.neg
    \/ x.kind = "fin" /\ x.neg /\ x.mag > 0

\* x + y on floats (IEEE 754: nan absorbs, inf - inf is nan, a zero sum is
\* negative only when both terms are negative zeros).
FloatAdd(x, y) ==
    IF x.kind = "nan" \/ y.kind = "nan" THEN NaN
    ELSE IF x.kind = "inf" /\ y.kind = "inf" THEN (IF x.neg = y.neg THEN x ELSE NaN)
    ELSE IF x.kind = "inf" THEN x
    ELSE IF y.kind = "inf" THEN y
    ELSE LET n == Signed(x) + Signed(y)
         IN  IF n = 0 THEN Fin(x.neg /\ y.neg, 0) ELSE Fin(n < 0, Abs(n))

\* sum(cacs): starts from the integer 0.
RECURSIVE sum(_)
sum(xs) == IF xs = <<>> THEN Fin(FALSE, 0) ELSE FloatAdd(sum(SubSeq(xs, 1, Len(xs) - 1)), xs[Len(xs)])

\* Round n/d to the nearest integer, ties to the even one.
RoundHalfEven(n, d) ==
    LET q == n \div d
        r == n % d
    IN  IF 2 * r < d THEN q
        ELSE IF 2 * r > d THEN q + 1
        ELSE IF q % 2 = 0 THEN q ELSE q + 1

\* x / n for an integer n > 0, to the nearest mill (exact for a sum of five
\* two-digit values).
FloatDiv(x, n) == IF x.kind = "fin" THEN Fin(x.neg, RoundHalfEven(x.mag, n)) ELSE x

RECURSIVE NatText(_)
NatText(n) == IF n < 10 THEN <<Digits[n + 1]>> ELSE Append(NatText(n \div 10), Digits[(n % 10) + 1])

\* Format2f cutting the thousandths off instead of rounding them.
Format2fTruncated(x) ==
    LET sign == IF x.neg THEN <<"-">> ELSE <<>>
        cents == x.mag \div 10
        c == cents % CentsPerUnit
    IN  IF x.kind = "nan" THEN <<"n", "a", "n">>
        ELSE IF x.kind = "inf" THEN sign \o <<"i", "n", "f">>
        ELSE sign \o NatText(cents \div CentsPerUnit) \o <<".">> \o <<Digits[(c \div 10) + 1], Digits[(c % 10) + 1]>>

\* f"{x:.2f}"
Format2f(x) ==
    LET sign == IF x.neg THEN <<"-">> ELSE <<>>
        cents == RoundHalfEven(x.mag, 10)
        c == cents % CentsPerUnit
    IN  IF x.kind = "nan" THEN <<"n", "a", "n">>
        ELSE IF x.kind = "inf" THEN sign \o <<"i", "n", "f">>
        ELSE sign \o NatText(cents \div CentsPerUnit) \o <<".">> \o <<Digits[(c \div 10) + 1], Digits[(c % 10) + 1]>>

----------------------------------------------------------------------------
(* Inbound request bodies, as Flask's request.get_json() sees them *)

\* A JSON value.  t is its type; n the value of a number or a boolean (0/1),
\* s the value of a string, elems the strings of an array, keys the keys of
\* an object, whose values are opaque.
JVal(t, n, s, elems, keys) == [t |-> t, n |-> n, s |-> s, elems |-> elems, keys |-> keys]
JNull == JVal("null", 0, "", {}, {})
JNum(n) == JVal("num", n, "", {}, {})
JBool(b) == JVal("bool", IF b THEN 1 ELSE 0, "", {}, {})
JStr(s) == JVal("str", 0, s, {}, {})
JArr(elems) == JVal("arr", 0, "", elems, {})
JObj(keys) == JVal("obj", 0, "", {}, keys)

\* A request body: whether the request declares a JSON content type, whether
\* the body parses as JSON, and the value it parses to.
Body(is_json, parses, val) == [is_json |-> is_json, parses |-> parses, val |-> val]

NoBody == Body(FALSE, FALSE, JNull)            \* nothing sent, no content type
UnparseableBody == Body(TRUE, FALSE, JNull)    \* application/json, not JSON text

JsonBodies ==
    { Body(TRUE, TRUE, v) : v \in
        { JNull, JObj({}), JObj({"historical_data"}),
          JObj({"future_box_info"}), JObj({"future_box_info", "historical_data"}),
          JArr({}), JArr({"future_box_info"}), JArr({"x"}),
          JNum(0), JNum(5), JBool(TRUE), JBool(FALSE),
          JStr(""), JStr("abc"), JStr("future_box_info") } }

Bodies == {NoBody, UnparseableBody} \cup JsonBodies

\* Outcomes of request.get_json().  A body that is not JSON text makes it
\* raise BadRequest; without a JSON content type Flask returns None before
\* 2.1 and raises from 2.1 on.  Raised is the exception, Got(v) a value.
Raised(msg) == [raised |-> TRUE, msg |-> msg, val |-> JNull]
Got(v) == [raised |-> FALSE, msg |-> <<>>, val |-> v]

get_json(body) ==
    IF ~body.is_json THEN {Got(JNull), Raised(<<"415 Unsupported Media Type">>)}
    ELSE IF ~body.parses THEN {Raised(<<"400 Bad Request">>)}
    ELSE {Got(body.val)}

\* bool(data)
Truthy(v) ==
    CASE v.t = "null" -> FALSE
      [] v.t = "bool" -> v.n = 1
      [] v.t = "num" -> v.n # 0
      [] v.t = "str" -> v.s # ""
      [] v.t = "arr" -> v.elems # {}
      [] v.t = "obj" -> v.keys # {}

\* name in data: a key of a dict, an element of a list, a substring of a
\* str (of the modelled strings only "future_box_info" has the substring);
\* a TypeError on a number or a boolean.
SupportsIn(v) == v.t \in {"str", "arr", "obj"}
In(name, v) ==
    CASE v.t = "obj" -> name \in v.keys
      [] v.t = "arr" -> name \in v.elems
      [] v.t = "str" -> v.s = name
      [] OTHER -> FALSE

\* data.get exists on a dict only.
SupportsGet(v) == v.t = "obj"

----------------------------------------------------------------------------
(* Responses of the completion API, as requests.post() returns them *)

\* shape "content": choices[0].message.content is the text; "nochoices":
\* the JSON body has no choices key; "emptychoices": choices is []; 
\* "nullcontent": content is null; "connerr": requests.post raised.
Reply(status, shape, text) == [status |-> status, shape |-> shape, text |-> text]

Answer(text) == Reply(200, "content", text)

\* Outcome of one pass of the loop body after requests.post returned.
Raise(msg) == [raised |-> TRUE, msg |-> msg, val |-> NotAFloat]
Value(x) == [raised |-> FALSE, msg |-> <<>>, val |-> x]

\* parse_cac without the test for a negative value.
parse_cac_unsigned(cac) ==
    LET cac_float == float(cac)
    IN  IF cac_float.kind = "err" THEN Raise(<<"Invalid CAC">>) ELSE Value(cac_float)

\* Lines 64-71: float(cac), the negativity test, and the handler that turns
\* both ValueErrors into "Invalid CAC".
parse_cac(cac) ==
    LET cac_float == float(cac)
    IN  IF cac_float.kind = "err" THEN Raise(<<"Invalid CAC">>)
        ELSE IF LessThanZero(cac_float) THEN Raise(<<"Invalid CAC">>)
        ELSE Value(cac_float)

\* loop_body without the status test.
loop_body_any_status(reply) ==
    IF reply.shape = "connerr" THEN Raise(<<"ConnectionError">>)
    ELSE IF reply.shape = "emptychoices" THEN Raise(<<"list index out of range">>)
    ELSE IF reply.shape = "nullcontent" THEN Raise(<<"'NoneType' object has no attribute 'strip'">>)
    ELSE LET cac == IF reply.shape = "nochoices" THEN <<>> ELSE strip(reply.text)
         IN  IF cac = <<>> THEN Raise(<<"Empty response from model">>)
             ELSE parse_cac(cac)

\* Lines 54-71: the status test, the extraction of the content, the empty
\* test and the parse.
loop_body(reply) ==
    IF reply.shape = "connerr" THEN Raise(<<"ConnectionError">>)
    ELSE IF reply.status # 200 THEN Raise(<<"OpenAI API error">>)
    ELSE IF reply.shape = "emptychoices" THEN Raise(<<"list index out of range">>)
    ELSE IF reply.shape = "nullcontent" THEN Raise(<<"'NoneType' object has no attribute 'strip'">>)
    ELSE LET cac == IF reply.shape = "nochoices" THEN <<>> ELSE strip(reply.text)
         IN  IF cac = <<>> THEN Raise(<<"Empty response from model">>)
             ELSE parse_cac(cac)

\* Lines 72-77: the text returned after the loop, or the error raised.
Text(t) == [raised |-> FALSE, msg |-> <<>>, val |-> t]
RaiseText(msg) == [raised |-> TRUE, msg |-> msg, val |-> <<>>]

final_cac(cacs) ==
    IF cacs = <<>> THEN RaiseText(<<"No valid CAC values collected">>)
    ELSE LET avg_cac == FloatDiv(sum(cacs), Len(cacs))
         IN  Text(Format2f(avg_cac))

----------------------------------------------------------------------------
(* HTTP responses of the service *)

NoResp == [status |-> 0, fields |-> {}, error |-> <<>>, predicted_cac |-> <<>>, state |-> ""]

\* jsonify({'error': msg}), status
ErrorResp(status, msg) ==
    [status |-> status, fields |-> {"error"}, error |-> msg, predicted_cac |-> <<>>, state |-> ""]

\* jsonify({'predicted_cac': cac})
CacResp(cac) ==
    [status |-> HTTP_OK, fields |-> {"predicted_cac"}, error |-> <<>>, predicted_cac |-> cac, state |-> ""]

\* jsonify({'status': 'healthy'})
HealthyResp ==
    [status |-> HTTP_OK, fields |-> {"status"}, error |-> <<>>, predicted_cac |-> <<>>, state |-> "healthy"]

\* Lines 78-80 and 94-96: predict_box_cac wraps every exception, box_score
\* answers 500 with its text.
PredictionError(msg) == ErrorResp(HTTP_SERVER_ERROR, <<"Prediction error">> \o msg)

----------------------------------------------------------------------------
(* The environment: request slots, the keys the process can be started     *)
(* with, and the responses the completion API can give                     *)

Slots == {1}
ConcSlots == {1, 2}

Keys == {"absent", "empty", "set"}

T(a, b, c, d, e) == <<a, b, c, d, e>>

\* Texts the parser accepts.
AcceptedTexts ==
    { T("1", "0", ".", "5", "0"), <<" ", "2", "0", ".", "0", "0", "\n">>,
      <<"n", "a", "n">>, <<"i", "n", "f">>, T("-", "0", ".", "0", "0") }

\* Texts it rejects: negative, not a number, empty, blank.
RejectedTexts ==
    { T("-", "5", ".", "0", "0"), <<"-", "i", "n", "f">>, <<"a", "b", "c">>,
      T("1", "0", ",", "5", "0"), <<>>, <<" ", "\n">> }

FailedReplies ==
    { Reply(201, "content", T("1", "0", ".", "5", "0")),
      Reply(429, "content", T("1", "0", ".", "5", "0")),
      Reply(500, "content", <<>>),
      Reply(0, "connerr", <<>>),
      Reply(200, "nochoices", <<>>),
      Reply(200, "emptychoices", <<>>),
      Reply(200, "nullcontent", <<>>) }

Replies == {Answer(t) : t \in AcceptedTexts \cup RejectedTexts} \cup FailedReplies

\* Answers for the arithmetic: two-decimal ones, a one-decimal one, nan, a
\* rejected one and a failed call.
KeyedReplies ==
    { Answer(t) : t \in
        { T("1", "0", ".", "0", "0"), T("2", "0", ".", "0", "0"), T("3", "0", ".", "0", "0"),
          T("1", "5", ".", "0", "0"), T("2", "5", ".", "0", "0"), T("1", "0", ".", "5", "0"),
          <<"0", ".", "0", "1">>, <<"1", "0", ".", "5">>, <<"n", "a", "n">>, <<"a", "b", "c">> } }
    \cup {Reply(500, "content", <<>>)}

\* Bodies that get_json treats alike in every Flask version.
KeyedBodies ==
    { UnparseableBody, Body(TRUE, TRUE, JNum(5)), Body(TRUE, TRUE, JObj({})),
      Body(TRUE, TRUE, JObj({"future_box_info"})) }

ConcReplies ==
    { Answer(T("1", "0", ".", "0", "0")), Answer(T("2", "0", ".", "0", "0")),
      Answer(<<"a", "b", "c">>), Reply(500, "content", <<>>) }

ConcBodies == {Body(TRUE, TRUE, JObj({})), Body(TRUE, TRUE, JObj({"future_box_info"}))}

----------------------------------------------------------------------------
(* State of one request slot *)

\* pc: "idle", "calling" (blocked in requests.post) or "done" (answered).
\* body and recv record the request body and the API responses received;
\* issued counts the calls sent, auth is their Authorization header.
IdleSlot ==
    [pc |-> "idle", body |-> NoBody, issued |-> 0, cacs |-> <<>>, recv |-> <<>>,
     auth |-> "", resp |-> NoResp]

\* f'Bearer {OPENAI_API_KEY}'
Authorization == CASE key = "set" -> "Bearer sk" [] key = "empty" -> "Bearer " [] OTHER -> "Bearer None"

\* Lines 86-91 of box_score on an outcome of get_json: the response it
\* returns before any call, NoResp when it goes on to predict_box_cac.
validate(g) ==
    IF g.raised THEN ErrorResp(HTTP_SERVER_ERROR, g.msg)
    ELSE IF ~Truthy(g.val) THEN ErrorResp(HTTP_BAD_REQUEST, <<"Missing future_box_info">>)
    ELSE IF ~SupportsIn(g.val) THEN ErrorResp(HTTP_SERVER_ERROR, <<"TypeError">>)
    ELSE IF ~In("future_box_info", g.val) THEN ErrorResp(HTTP_BAD_REQUEST, <<"Missing future_box_info">>)
    ELSE IF ~SupportsGet(g.val) THEN ErrorResp(HTTP_SERVER_ERROR, <<"AttributeError">>)
    ELSE NoResp

\* append on a cacs list kept at module level, shared by all requests.
append_module_level(rs, r, x) == [q \in DOMAIN rs |-> [rs[q] EXCEPT !.cacs = Append(@, x)]]

\* cacs.append(cac_float): cacs is a local of the call serving slot r.
append(rs, r, x) == [rs EXCEPT ![r].cacs = Append(@, x)]

\* The response after the loop (lines 72-80, 92-96).
finish(cacs) ==
    LET f == final_cac(cacs)
    IN  IF f.raised THEN PredictionError(f.msg) ELSE CacResp(f.val)

\* continue with a loop bound one too large.
continue_inclusive(s) ==
    IF s.issued <= Runs
    THEN [s EXCEPT !.issued = @ + 1]
    ELSE [s EXCEPT !.pc = "done", !.resp = finish(s.cacs)]

\* What the loop does once an iteration has appended its value: the next
\* iteration sends the next call, or the loop is over.
continue(s) ==
    IF s.issued < Runs
    THEN [s EXCEPT !.issued = @ + 1]
    ELSE [s EXCEPT !.pc = "done", !.resp = finish(s.cacs)]

\* What the loop does when an iteration raised: the exception leaves
\* predict_box_cac and box_score answers 500.
abort(s, msg) == [s EXCEPT !.pc = "done", !.resp = PredictionError(msg)]

----------------------------------------------------------------------------
(* Actions *)

\* python app.py: the __main__ block checks the key, then app.run.
StartMain ==
    /\ proc = "init"
    /\ proc' = IF key = "set" THEN "serving" ELSE "crashed"
    /\ UNCHANGED <<key, reqs, healthResp>>

\* A WSGI server or `flask run` imports the module and serves `app`: the
\* __main__ block does not run.
StartImported ==
    /\ proc = "init"
    /\ proc' = "serving"
    /\ UNCHANGED <<key, reqs, healthResp>>

\* POST /predict_box_score with the given body arrives on slot r: box_score
\* up to its response or, through predict_box_cac, to the first call.
box_score(r, body) ==
    /\ proc = "serving"
    /\ reqs[r].pc # "calling"
    /\ \E g \in get_json(body) :
         LET early == validate(g)
             fresh == [IdleSlot EXCEPT !.body = body]
         IN  reqs' = [reqs EXCEPT ![r] =
                 IF early # NoResp
                 THEN [fresh EXCEPT !.pc = "done", !.resp = early]
                 ELSE [fresh EXCEPT !.pc = "calling", !.issued = 1, !.auth = Authorization]]
    /\ UNCHANGED <<proc, key, healthResp>>

\* requests.post returns (or raises) on slot r: the rest of the iteration,
\* then the next call, the final response or the error response.
predict_box_cac(r, reply) ==
    /\ proc = "serving"
    /\ reqs[r].pc = "calling"
    /\ LET got == [reqs EXCEPT ![r].recv = Append(@, reply)]
           o == loop_body(reply)
       IN  IF o.raised
           THEN reqs' = [got EXCEPT ![r] = abort(@, o.msg)]
           ELSE LET kept == append(got, r, o.val)
                IN  reqs' = [kept EXCEPT ![r] = continue(@)]
    /\ UNCHANGED <<proc, key, healthResp>>

\* A health body that reports the failures of earlier predictions.
health_body_probing ==
    IF \E r \in DOMAIN reqs : reqs[r].resp.status = HTTP_SERVER_ERROR
    THEN ErrorResp(HTTP_SERVER_ERROR, <<"unhealthy">>)
    ELSE HealthyResp

\* The body of GET /health.
health_body == HealthyResp

\* GET /health
health_check ==
    /\ proc = "serving"
    /\ healthResp' = health_body
    /\ UNCHANGED <<proc, key, reqs>>

----------------------------------------------------------------------------
(* Specifications *)

InitOver(S, K) ==
    /\ proc = "init"
    /\ key \in K
    /\ reqs = [r \in S |-> IdleSlot]
    /\ healthResp = NoResp

Init == InitOver(Slots, Keys)

Next ==
    \/ StartMain
    \/ StartImported
    \/ \E r \in Slots, b \in Bodies : box_score(r, b)
    \/ \E r \in Slots, a \in Replies : predict_box_cac(r, a)
    \/ health_check

Spec == Init /\ [][Next]_vars

\* The process started with its key; answers chosen for the arithmetic.
InitKeyed == InitOver(Slots, {"set"})

NextKeyed ==
    \/ StartMain
    \/ StartImported
    \/ \E r \in Slots, b \in KeyedBodies : box_score(r, b)
    \/ \E r \in Slots, a \in KeyedReplies : predict_box_cac(r, a)
    \/ health_check

SpecKeyed == InitKeyed /\ [][NextKeyed]_vars

\* Two requests in flight at once (Flask's server is threaded).
InitConc == InitOver(ConcSlots, {"set"})

NextConc ==
    \/ StartMain
    \/ StartImported
    \/ \E r \in ConcSlots, b \in ConcBodies : box_score(r, b)
    \/ \E r \in ConcSlots, a \in ConcReplies : predict_box_cac(r, a)
    \/ health_check

SpecConc == InitConc /\ [][NextConc]_vars

----------------------------------------------------------------------------
(* Vocabulary of the properties, written without the handler's operators *)

SlotIds == DOMAIN reqs

Done(r) == reqs[r].pc = "done"

\* The request body is a JSON object with the key future_box_info.
HasField(body) ==
    /\ body.is_json /\ body.parses
    /\ body.val.t = "obj" /\ "future_box_info" \in body.val.keys

IsErrorBody(resp) == resp.fields = {"error"}

\* text without its leading and trailing whitespace, by positions
Core(text) ==
    LET inked == {i \in 1..Len(text) : ~IsSpace(text[i])}
    IN  IF inked = {} THEN <<>>
        ELSE SubSeq(text, CHOOSE i \in inked : \A j \in inked : i <= j,
                          CHOOSE i \in inked : \A j \in inked : i >= j)

\* digits with at most one point among them
IsDecimal(s) ==
    /\ \A i \in 1..Len(s) : IsDigit(s[i]) \/ s[i] = "."
    /\ Cardinality({i \in 1..Len(s) : s[i] = "."}) <= 1
    /\ \E i \in 1..Len(s) : IsDigit(s[i])

Unsign(s) == IF s # <<>> /\ s[1] \in {"+", "-"} THEN SubSeq(s, 2, Len(s)) ELSE s

IsNumberLiteral(s) ==
    \/ IsDecimal(Unsign(s))
    \/ Unsign(s) \in {<<"i", "n", "f">>, <<"n", "a", "n">>}

IsEmptyText(text) == Core(text) = <<>>

IsNonNumericText(text) == Core(text) # <<>> /\ ~IsNumberLiteral(Core(text))

IsNegativeText(text) ==
    LET s == Core(text)
    IN  /\ s # <<>> /\ s[1] = "-"
        /\ \/ Unsign(s) = <<"i", "n", "f">>
           \/ IsDecimal(Unsign(s)) /\ \E i \in 2..Len(s) : IsDigit(s[i]) /\ s[i] # "0"

IsNonNegativeDecimal(text) ==
    LET s == Core(text)
    IN  /\ s # <<>> /\ s[1] # "-"
        /\ IsDecimal(Unsign(s))

Pow10 == [e \in 0..9 |-> CASE e = 0 -> 1 [] e = 1 -> 10 [] e = 2 -> 100 [] e = 3 -> 1000 [] e = 4 -> 10000 [] e = 5 -> 100000 [] e = 6 -> 1000000 [] e = 7 -> 10000000 [] e = 8 -> 100000000 [] e = 9 -> 1000000000]

RECURSIVE SumOver(_, _)
SumOver(f, S) == IF S = {} THEN 0 ELSE LET i == CHOOSE i \in S : TRUE IN f[i] + SumOver(f, S \ {i})

\* The thousandths a non-negative decimal of at most three fraction digits
\* denotes: each digit weighed by its place.
Mills(text) ==
    LET s == Unsign(Core(text))
        ps == {i \in 1..Len(s) : s[i] = "."}
        p == IF ps = {} THEN Len(s) + 1 ELSE CHOOSE i \in ps : TRUE
        w == [i \in (1..Len(s)) \ ps |->
                 DigitVal(s[i]) * (IF i < p THEN Pow10[p - i + 2] ELSE Pow10[3 - (i - p)])]
    IN  SumOver(w, (1..Len(s)) \ ps)

\* digits, a point, two digits
IsTwoDecimal(t) ==
    /\ Len(t) >= 4
    /\ t[Len(t) - 2] = "."
    /\ \A i \in (1..Len(t)) \ {Len(t) - 2} : IsDigit(t[i])

\* The hundredths a two-decimal text denotes.
Cents(t) == Mills(t) \div 10

A200(r) == reqs[r].resp.status = 200
A400(r) == reqs[r].resp.status = 400
A500(r) == reqs[r].resp.status = 500

----------------------------------------------------------------------------
(* Properties *)

\* C1: every request whose body does not contain the field future_box_info
\* (an empty object, an absent body, any other body without the field) is
\* answered 400 with an error field.
C1_MissingFieldIs400 ==
    \A r \in SlotIds :
        Done(r) /\ ~HasField(reqs[r].body) => A400(r) /\ IsErrorBody(reqs[r].resp)

\* C2: a request with the field whose five calls each returned 200 with a
\* non-negative decimal is answered 200 with predicted_cac a two-decimal
\* text within half a hundredth of the mean of the five values; five equal
\* two-decimal answers v give v back.
C2_MeanOfFive ==
    \A r \in SlotIds :
        LET s == reqs[r]
            total == SumOver([i \in 1..Runs |-> Mills(s.recv[i].text)], 1..Runs)
        IN  /\ Done(r) /\ HasField(s.body) /\ Len(s.recv) = Runs
            /\ \A i \in 1..Runs :
                   /\ s.recv[i].status = 200 /\ s.recv[i].shape = "content"
                   /\ IsNonNegativeDecimal(s.recv[i].text)
            => /\ A200(r)
               /\ s.resp.fields = {"predicted_cac"}
               /\ IsTwoDecimal(s.resp.predicted_cac)
               /\ 2 * Abs(Runs * 10 * Cents(s.resp.predicted_cac) - total) <= Runs * 10
               /\ (IsTwoDecimal(s.recv[1].text) /\ \A i \in 1..Runs : s.recv[i] = s.recv[1])
                      => s.resp.predicted_cac = s.recv[1].text

\* C2 witness: the answers 10.00, 20.00, 30.00, 15.00, 25.00 gave 20.00.
C2_Witness ==
    \E r \in SlotIds :
        /\ Done(r)
        /\ [i \in 1..Len(reqs[r].recv) |-> reqs[r].recv[i].text] =
               << T("1", "0", ".", "0", "0"), T("2", "0", ".", "0", "0"), T("3", "0", ".", "0", "0"),
                  T("1", "5", ".", "0", "0"), T("2", "5", ".", "0", "0") >>
        /\ reqs[r].resp.predicted_cac = T("2", "0", ".", "0", "0")

\* A 200 answer whose content is empty (or missing, which reads as empty),
\* a negative number or not a number.
BadContent(reply) ==
    /\ reply.status = 200
    /\ \/ reply.shape = "nochoices"
       \/ /\ reply.shape = "content"
          /\ \/ IsEmptyText(reply.text)
             \/ IsNegativeText(reply.text)
             \/ IsNonNumericText(reply.text)

Non2xx(reply) == reply.shape # "connerr" /\ reply.status \notin 200..299

\* C4: once any call of a request (the first, a middle one, the last) was
\* answered with a non-2xx status, the request is answered 500 with an
\* error field.
C4_Non2xxIs500 ==
    \A r \in SlotIds :
        (\E i \in 1..Len(reqs[r].recv) : Non2xx(reqs[r].recv[i]))
            => Done(r) /\ A500(r) /\ IsErrorBody(reqs[r].resp)

\* C4 witness: the fifth call failed after four good ones.
C4_Witness ==
    \E r \in SlotIds :
        /\ Done(r) /\ A500(r)
        /\ Len(reqs[r].recv) = Runs /\ Len(reqs[r].cacs) = Runs - 1
        /\ Non2xx(reqs[r].recv[Runs])

\* C5: every 200 response carries a predicted_cac of digits, a point and
\* two digits.
C5_TwoDecimalOutput ==
    \A r \in SlotIds :
        Done(r) /\ A200(r) =>
            /\ "predicted_cac" \in reqs[r].resp.fields
            /\ IsTwoDecimal(reqs[r].resp.predicted_cac)

\* C6: a failing request is answered 400 exactly when the client request is
\* malformed or incomplete and 500 otherwise, and never 500 when no
\* outbound call was made.
C6_TwoStatusesByCause ==
    \A r \in SlotIds :
        Done(r) /\ ~A200(r) =>
            /\ A400(r) \/ A500(r)
            /\ A400(r) <=> ~HasField(reqs[r].body)
            /\ A500(r) => reqs[r].issued > 0

\* C7: GET /health answers 200 {status: healthy} in every state, and the
\* step that serves it changes no request and sends no call.
C7_HealthAlwaysHealthy ==
    /\ [](healthResp # NoResp =>
            /\ healthResp.status = 200
            /\ healthResp.fields = {"status"}
            /\ healthResp.state = "healthy")
    /\ [][healthResp' # healthResp => reqs' = reqs]_vars

\* C7 witness: health was served and a request is in progress.
C7_Witness ==
    /\ healthResp # NoResp
    /\ \E r \in SlotIds : reqs[r].pc = "calling" /\ Len(reqs[r].recv) >= 1

\* C8: the application never serves, and never sends a call, without an
\* API key.
C8_NoServingWithoutKey ==
    /\ proc = "serving" => key = "set"
    /\ \A r \in SlotIds : reqs[r].auth \in {"", "Bearer sk"}

\* C9: calls are sequential and never retried: while a call is out, every
\* earlier one was answered and accepted; at most five are sent; 200 comes
\* after exactly five accepted answers, 400 after none sent, 500 right after
\* the first failing answer; and a step of a request in progress receives
\* one answer and sends one more call only if it accepted that answer.
C9_SequentialNoRetry ==
    /\ [](\A r \in SlotIds :
            LET s == reqs[r]
            IN  /\ s.issued <= Runs
                /\ s.pc = "calling" => s.issued = Len(s.recv) + 1 /\ Len(s.cacs) = Len(s.recv)
                /\ Done(r) /\ A200(r) => s.issued = Runs /\ Len(s.recv) = Runs /\ Len(s.cacs) = Runs
                /\ Done(r) /\ A400(r) => s.issued = 0
                /\ Done(r) /\ A500(r) => s.issued = Len(s.recv) /\ (s.issued > 0 => Len(s.cacs) = s.issued - 1))
    /\ [][\A r \in SlotIds :
            reqs[r].pc = "calling" /\ reqs'[r] # reqs[r] =>
                /\ Len(reqs'[r].recv) = Len(reqs[r].recv) + 1
                /\ reqs'[r].issued \in {reqs[r].issued, reqs[r].issued + 1}
                /\ reqs'[r].issued = reqs[r].issued + 1 => Len(reqs'[r].cacs) = Len(reqs[r].cacs) + 1
                /\ Len(reqs'[r].cacs) = Len(reqs[r].cacs) =>
                       reqs'[r].pc = "done" /\ reqs'[r].issued = reqs[r].issued /\ reqs'[r].resp.status = 500]_vars

\* C9 witness: a 200 after five calls.
C9_Witness == \E r \in SlotIds : Done(r) /\ A200(r) /\ reqs[r].issued = Runs

\* The values a sequence of answers yields, up to the first failing one.
RECURSIVE Parsed(_)
Parsed(recv) ==
    IF recv = <<>> THEN <<>>
    ELSE LET o == loop_body(Head(recv))
         IN  IF o.raised THEN <<>> ELSE <<o.val>> \o Parsed(Tail(recv))

\* The responses a request alone can get from its body and its answers.
Alone(body, recv) ==
    { IF validate(g) # NoResp THEN validate(g)
      ELSE IF Len(Parsed(recv)) < Len(recv) THEN PredictionError(loop_body(recv[Len(Parsed(recv)) + 1]).msg)
      ELSE finish(Parsed(recv)) : g \in get_json(body) }

\* C10: under any interleaving of two requests, the values a request holds
\* are those parsed from its own answers and its response is the one its
\* own body and answers give.
C10_Independent ==
    \A r \in SlotIds :
        /\ reqs[r].pc # "idle" => reqs[r].cacs = Parsed(reqs[r].recv)
        /\ Done(r) => reqs[r].resp \in Alone(reqs[r].body, reqs[r].recv)

\* C10 witness: one request answered 200 while the other, in progress,
\* holds answers of its own.
C10_Witness ==
    /\ Done(1) /\ A200(1)
    /\ reqs[2].pc = "calling" /\ Len(reqs[2].recv) >= 2
    /\ reqs[2].recv[1] # reqs[1].recv[1]

====
